---- MODULE Spec2Model ----
(***************************************************************************)
(* Listing ledger of src/contract/listingContract.rs: the listing store,   *)
(* the NEAR wallet -> NOVA account map, the purchase recording and the     *)
(* owner-controlled grant / revoke of per-buyer access.                    *)
(*                                                                         *)
(* Calls are serialized by the host: one action is one whole call.  A call *)
(* that panics (assert_eq! / assert!) commits nothing; the writes the      *)
(* handler had made before the panic are kept in call.dirty so that the    *)
(* order of checks and writes stays observable.                            *)
(***************************************************************************)
EXTENDS Integers, Sequences, FiniteSets, TLC

\* ---------------------------------------------------------------- bounds
MaxListings == 2
MaxBuys == 2

\* ---------------------------------------------------------------- inputs
Accounts == {"alice", "bob", "carol"}
Owners == {"alice", "bob"}
Buyers == {"bob", "carol"}
ProductIds == {1, 2}
\* The <<product_id, gp_owner>> a listing is created with: product 1 listed by
\* either owner (any number of times), product 2 by alice.
ListingInputs == (ProductIds \X Owners) \ {<<2, "bob">>}
NovaIds == {"x.nova", "y.nova"}
\* The <<caller, nova_account_id>> pairs buy is called with: bob writes either
\* id, so a later write can differ from an earlier one.
BuyInputs == (Buyers \X NovaIds) \ {<<"carol", "y.nova">>}
None == "None"

ListingKind == {"Image", "Dataset", "Audio", "Other"}

\* The creation arguments other than product_id and gp_owner, as tuples
\* <<price, nova_group_id, list_type, cid, is_tee_verified, tee_signature>>.
\* Each owner lists with its own tuple, so that records of different owners
\* differ in every creation field.
CreateArgs(gp_owner) ==
    IF gp_owner = "alice"
    THEN <<10, "g1", "Image", "cid1", TRUE, "sig1">>
    ELSE <<25, "g2", "Dataset", "cid2", FALSE, None>>

\* ---------------------------------------------------------------- outcomes
OK == "ok"
GrantAuthError == "Only the listing owner can grant access"
RevokeAuthError == "Only the listing owner can revoke access"
PreconditionError == "Account has not purchased this listing"
AddOverflow == "attempt to add with overflow"

\* ---------------------------------------------------------------- helpers
\* Vec::contains
Contains(s, a) == \E k \in 1..Len(s) : s[k] = a

\* Vec::retain(|b| b != &buyer)
Retain(s, buyer) == SelectSeq(s, LAMBDA b : b # buyer)

\* The set of elements of a Vec
Elems(s) == { s[k] : k \in 1..Len(s) }

\* The scan, keeping the last match instead of stopping at the first
find_last_index(ls, p_id) ==
    IF \E k \in 1..Len(ls) : ls[k].product_id = p_id
    THEN CHOOSE k \in 1..Len(ls) :
            /\ ls[k].product_id = p_id
            /\ \A j \in (k + 1)..Len(ls) : ls[j].product_id # p_id
    ELSE 0

\* The scan `for i in 0..len { if item.product_id == p_id { ...; break } }`:
\* the position (1-based) of the first listing with this product_id, 0 if none.
FindIndex(ls, p_id) ==
    IF \E k \in 1..Len(ls) : ls[k].product_id = p_id
    THEN CHOOSE k \in 1..Len(ls) :
            /\ ls[k].product_id = p_id
            /\ \A j \in 1..(k-1) : ls[j].product_id # p_id
    ELSE 0

\* ---------------------------------------------------------------- counters
\* purchase_number is a u32.  A count is written <<hi, lo>> for hi * Limb + lo
\* with lo < Limb, so that the 32-bit limit and the counts beyond it (in the
\* histories) can be written; a u32 has hi < Limb.
Limb == 65536
Big(k) == <<k \div Limb, k % Limb>>
BigInc(n) == IF n[2] = Limb - 1 THEN <<n[1] + 1, 0>> ELSE <<n[1], n[2] + 1>>
BigAdd(m, n) == <<m[1] + n[1] + ((m[2] + n[2]) \div Limb), (m[2] + n[2]) % Limb>>
BigLess(m, n) == m[1] < n[1] \/ (m[1] = n[1] /\ m[2] < n[2])
U32Zero == <<0, 0>>
U32Max == <<Limb - 1, Limb - 1>>
\* The count of the store InitAtLimit starts from: one below the limit
LimitStart == <<Limb - 1, Limb - 2>>

RECURSIVE SumOver(_, _)
\* The sum of f over the finite set S
SumOver(f, S) ==
    IF S = {} THEN U32Zero
    ELSE LET a == CHOOSE x \in S : TRUE
         IN  BigAdd(f[a], SumOver(f, S \ {a}))

RECURSIVE TotalCalls(_)
\* The buy calls recorded in a per-listing history
TotalCalls(h) ==
    IF h = << >> THEN U32Zero
    ELSE BigAdd(SumOver(Head(h), Accounts), TotalCalls(Tail(h)))

\* Listing { ... } of create_listing, with the signature left out
new_listing_drops_signature(product_id, gp_owner, args) ==
    [ product_id         |-> product_id,
      price              |-> args[1],
      nova_group_id      |-> args[2],
      owner              |-> gp_owner,
      purchase_number    |-> U32Zero,
      list_type          |-> args[3],
      cid                |-> args[4],
      is_active          |-> TRUE,
      buyers             |-> << >>,
      buyers_with_access |-> << >>,
      is_tee_verified    |-> args[5],
      tee_signature      |-> None ]

\* Listing { ... } as built by create_listing
NewListing(product_id, gp_owner, args) ==
    [ product_id         |-> product_id,
      price              |-> args[1],
      nova_group_id      |-> args[2],
      owner              |-> gp_owner,
      purchase_number    |-> U32Zero,
      list_type          |-> args[3],
      cid                |-> args[4],
      is_active          |-> TRUE,
      buyers             |-> << >>,
      buyers_with_access |-> << >>,
      is_tee_verified    |-> args[5],
      tee_signature      |-> args[6] ]

\* ---------------------------------------------------------------- state
VARIABLES
    listings,           \* Contract.listings : Vector<Listing>
    nova_account_map,   \* Contract.nova_account_map, None where no entry
    call,               \* the outcome of the most recent call
    hBuyCalls,          \* history: per listing position, completed buy calls per caller
    hLast,              \* history: the NOVA account each caller last passed to buy
    hGrant,             \* history: who last granted <<p_id, buyer>>, if any
    hFirst              \* history: per listing position, callers by first buy

vars == <<listings, nova_account_map, call, hBuyCalls, hLast, hGrant, hFirst>>

\* ---------------------------------------------------------------- queries
get_listings == listings

\* Option<Listing>: << >> is None, <<l>> is Some(l).  Lookup is get_listing
\* on a given store.
Lookup(ls, p_id) ==
    LET i == FindIndex(ls, p_id)
    IN  IF i = 0 THEN << >> ELSE <<ls[i]>>

get_listing(p_id) == Lookup(listings, p_id)

get_nova_account(near_wallet) == nova_account_map[near_wallet]

has_access(p_id, buyer) ==
    LET found == get_listing(p_id)
    IN  IF found # << >> THEN Contains(found[1].buyers_with_access, buyer)
        ELSE FALSE

has_purchased(p_id, account_id) ==
    LET found == get_listing(p_id)
    IN  IF found # << >> THEN Contains(found[1].buyers, account_id)
        ELSE FALSE

\* the pending filter without its negation
pending_filter_inverted(p_id) ==
    LET found == get_listing(p_id)
    IN  IF found # << >>
        THEN SelectSeq(found[1].buyers,
                       LAMBDA buyer : Contains(found[1].buyers_with_access, buyer))
        ELSE << >>

get_pending_access_buyers(p_id) ==
    LET found == get_listing(p_id)
    IN  IF found # << >>
        THEN SelectSeq(found[1].buyers,
                       LAMBDA buyer : ~Contains(found[1].buyers_with_access, buyer))
        ELSE << >>

get_buyers_with_access(p_id) ==
    LET found == get_listing(p_id)
    IN  IF found # << >> THEN found[1].buyers_with_access ELSE << >>

RECURSIVE JoinNova(_)
\* filter_map over the pending buyers: a buyer without a map entry is dropped
JoinNova(s) ==
    IF s = << >> THEN << >>
    ELSE LET buyer == Head(s)
             rest == JoinNova(Tail(s))
         IN  IF nova_account_map[buyer] # None
             THEN << <<buyer, nova_account_map[buyer]>> >> \o rest
             ELSE rest

get_pending_buyers_with_nova_accounts(p_id) ==
    JoinNova(get_pending_access_buyers(p_id))

\* ---------------------------------------------------------------- handlers
\* Each handler maps the store before the call to the store at the point the
\* handler returns or panics, with the outcome.
Outcome(ls, nm, result) == [listings |-> ls, nova_account_map |-> nm, result |-> result]

\* create_listing that puts the new listing in front
create_prepends(ls, product_id, gp_owner, args) ==
    <<NewListing(product_id, gp_owner, args)>> \o ls

create_listing_fn(ls, product_id, gp_owner, args) ==
    Append(ls, NewListing(product_id, gp_owner, args))

\* `purchase_number += 1` on a u32.  At the limit the addition overflows: the
\* handler goes on with the wrapped value, and whether the call then panics
\* or returns is the build's choice (see Built).
Incremented(n) == IF n = U32Max THEN U32Zero ELSE BigInc(n)
AddResult(n) == IF n = U32Max THEN AddOverflow ELSE OK

\* buy with the counter deduplicated: only a first purchase is counted
buy_counts_buyers(ls, nm, buyer_account, p_id, nova_account_id) ==
    LET nm1 == [nm EXCEPT ![buyer_account] = nova_account_id]
        i == FindIndex(ls, p_id)
    IN  IF i = 0 THEN Outcome(ls, nm1, OK)
        ELSE LET item == ls[i]
                 updated_item ==
                    IF ~Contains(item.buyers, buyer_account)
                    THEN [item EXCEPT !.purchase_number = Incremented(@),
                                      !.buyers = Append(@, buyer_account)]
                    ELSE item
             IN  Outcome([ls EXCEPT ![i] = updated_item], nm1,
                         AddResult(item.purchase_number))

\* buy that gives the buyer access at once
buy_grants_access(ls, nm, buyer_account, p_id, nova_account_id) ==
    LET nm1 == [nm EXCEPT ![buyer_account] = nova_account_id]
        i == FindIndex(ls, p_id)
    IN  IF i = 0 THEN Outcome(ls, nm1, OK)
        ELSE LET item == ls[i]
                 counted == [item EXCEPT !.purchase_number = Incremented(@)]
                 updated_item ==
                    IF ~Contains(counted.buyers, buyer_account)
                    THEN [counted EXCEPT
                            !.buyers = Append(@, buyer_account),
                            !.buyers_with_access = Append(@, buyer_account)]
                    ELSE counted
             IN  Outcome([ls EXCEPT ![i] = updated_item], nm1,
                         AddResult(item.purchase_number))

\* buy that keeps an existing map entry (entry().or_insert instead of insert)
buy_keeps_first_entry(ls, nm, buyer_account, p_id, nova_account_id) ==
    LET nm1 == IF nm[buyer_account] = None
               THEN [nm EXCEPT ![buyer_account] = nova_account_id]
               ELSE nm
        i == FindIndex(ls, p_id)
    IN  IF i = 0 THEN Outcome(ls, nm1, OK)
        ELSE LET item == ls[i]
                 counted == [item EXCEPT !.purchase_number = Incremented(@)]
                 updated_item ==
                    IF ~Contains(counted.buyers, buyer_account)
                    THEN [counted EXCEPT !.buyers = Append(@, buyer_account)]
                    ELSE counted
             IN  Outcome([ls EXCEPT ![i] = updated_item], nm1,
                         AddResult(item.purchase_number))

\* buy without the insert into nova_account_map
buy_without_map_insert(ls, nm, buyer_account, p_id, nova_account_id) ==
    LET i == FindIndex(ls, p_id)
    IN  IF i = 0 THEN Outcome(ls, nm, OK)
        ELSE LET item == ls[i]
                 counted == [item EXCEPT !.purchase_number = Incremented(@)]
                 updated_item ==
                    IF ~Contains(counted.buyers, buyer_account)
                    THEN [counted EXCEPT !.buyers = Append(@, buyer_account)]
                    ELSE counted
             IN  Outcome([ls EXCEPT ![i] = updated_item], nm,
                         AddResult(item.purchase_number))

\* buy that puts a new buyer in front of the earlier ones
buy_pushes_front(ls, nm, buyer_account, p_id, nova_account_id) ==
    LET nm1 == [nm EXCEPT ![buyer_account] = nova_account_id]
        i == FindIndex(ls, p_id)
    IN  IF i = 0 THEN Outcome(ls, nm1, OK)
        ELSE LET item == ls[i]
                 counted == [item EXCEPT !.purchase_number = Incremented(@)]
                 updated_item ==
                    IF ~Contains(counted.buyers, buyer_account)
                    THEN [counted EXCEPT !.buyers = <<buyer_account>> \o @]
                    ELSE counted
             IN  Outcome([ls EXCEPT ![i] = updated_item], nm1,
                         AddResult(item.purchase_number))

buy_fn(ls, nm, buyer_account, p_id, nova_account_id) ==
    LET nm1 == [nm EXCEPT ![buyer_account] = nova_account_id]
        i == FindIndex(ls, p_id)
    IN  IF i = 0 THEN Outcome(ls, nm1, OK)
        ELSE LET item == ls[i]
                 counted == [item EXCEPT !.purchase_number = Incremented(@)]
                 updated_item ==
                    IF ~Contains(counted.buyers, buyer_account)
                    THEN [counted EXCEPT !.buyers = Append(@, buyer_account)]
                    ELSE counted
             IN  Outcome([ls EXCEPT ![i] = updated_item], nm1,
                         AddResult(item.purchase_number))

\* grant with the two assertions in the other order
grant_checks_purchase_first(ls, nm, caller, p_id, buyer) ==
    LET i == FindIndex(ls, p_id)
    IN  IF i = 0 THEN Outcome(ls, nm, OK)
        ELSE LET item == ls[i]
             IN  IF ~Contains(item.buyers, buyer)
                 THEN Outcome(ls, nm, PreconditionError)
                 ELSE IF item.owner # caller THEN Outcome(ls, nm, GrantAuthError)
                 ELSE LET updated_item ==
                            IF ~Contains(item.buyers_with_access, buyer)
                            THEN [item EXCEPT !.buyers_with_access = Append(@, buyer)]
                            ELSE item
                      IN  Outcome([ls EXCEPT ![i] = updated_item], nm, OK)

\* grant without the purchase assertion
grant_without_purchase_check(ls, nm, caller, p_id, buyer) ==
    LET i == FindIndex(ls, p_id)
    IN  IF i = 0 THEN Outcome(ls, nm, OK)
        ELSE LET item == ls[i]
             IN  IF item.owner # caller THEN Outcome(ls, nm, GrantAuthError)
                 ELSE LET updated_item ==
                            IF ~Contains(item.buyers_with_access, buyer)
                            THEN [item EXCEPT !.buyers_with_access = Append(@, buyer)]
                            ELSE item
                      IN  Outcome([ls EXCEPT ![i] = updated_item], nm, OK)

\* grant that stores the new access list before it asserts the purchase
grant_writes_before_check(ls, nm, caller, p_id, buyer) ==
    LET i == FindIndex(ls, p_id)
    IN  IF i = 0 THEN Outcome(ls, nm, OK)
        ELSE LET item == ls[i]
                 updated_item ==
                    IF ~Contains(item.buyers_with_access, buyer)
                    THEN [item EXCEPT !.buyers_with_access = Append(@, buyer)]
                    ELSE item
                 stored == [ls EXCEPT ![i] = updated_item]
             IN  IF item.owner # caller THEN Outcome(ls, nm, GrantAuthError)
                 ELSE IF ~Contains(item.buyers, buyer)
                 THEN Outcome(stored, nm, PreconditionError)
                 ELSE Outcome(stored, nm, OK)

\* grant that pushes without looking for the buyer in buyers_with_access
grant_always_pushes(ls, nm, caller, p_id, buyer) ==
    LET i == FindIndex(ls, p_id)
    IN  IF i = 0 THEN Outcome(ls, nm, OK)
        ELSE LET item == ls[i]
             IN  IF item.owner # caller THEN Outcome(ls, nm, GrantAuthError)
                 ELSE IF ~Contains(item.buyers, buyer)
                 THEN Outcome(ls, nm, PreconditionError)
                 ELSE LET updated_item ==
                            [item EXCEPT !.buyers_with_access = Append(@, buyer)]
                      IN  Outcome([ls EXCEPT ![i] = updated_item], nm, OK)

\* grant that refuses an unknown product_id
grant_requires_listing(ls, nm, caller, p_id, buyer) ==
    LET i == FindIndex(ls, p_id)
    IN  IF i = 0 THEN Outcome(ls, nm, "Listing not found")
        ELSE LET item == ls[i]
             IN  IF item.owner # caller THEN Outcome(ls, nm, GrantAuthError)
                 ELSE IF ~Contains(item.buyers, buyer)
                 THEN Outcome(ls, nm, PreconditionError)
                 ELSE LET updated_item ==
                            IF ~Contains(item.buyers_with_access, buyer)
                            THEN [item EXCEPT !.buyers_with_access = Append(@, buyer)]
                            ELSE item
                      IN  Outcome([ls EXCEPT ![i] = updated_item], nm, OK)

\* grant that records the purchase itself when the buyer has none
grant_adds_buyer(ls, nm, caller, p_id, buyer) ==
    LET i == FindIndex(ls, p_id)
    IN  IF i = 0 THEN Outcome(ls, nm, OK)
        ELSE LET item == ls[i]
             IN  IF item.owner # caller THEN Outcome(ls, nm, GrantAuthError)
                 ELSE LET bought ==
                            IF ~Contains(item.buyers, buyer)
                            THEN [item EXCEPT !.buyers = Append(@, buyer)]
                            ELSE item
                          updated_item ==
                            IF ~Contains(bought.buyers_with_access, buyer)
                            THEN [bought EXCEPT !.buyers_with_access = Append(@, buyer)]
                            ELSE bought
                      IN  Outcome([ls EXCEPT ![i] = updated_item], nm, OK)

grant_buyer_access_fn(ls, nm, caller, p_id, buyer) ==
    LET i == FindIndex(ls, p_id)
    IN  IF i = 0 THEN Outcome(ls, nm, OK)
        ELSE LET item == ls[i]
             IN  IF item.owner # caller THEN Outcome(ls, nm, GrantAuthError)
                 ELSE IF ~Contains(item.buyers, buyer)
                 THEN Outcome(ls, nm, PreconditionError)
                 ELSE LET updated_item ==
                            IF ~Contains(item.buyers_with_access, buyer)
                            THEN [item EXCEPT !.buyers_with_access = Append(@, buyer)]
                            ELSE item
                      IN  Outcome([ls EXCEPT ![i] = updated_item], nm, OK)

\* revoke that retains on buyers instead of buyers_with_access
revoke_from_buyers(ls, nm, caller, p_id, buyer) ==
    LET i == FindIndex(ls, p_id)
    IN  IF i = 0 THEN Outcome(ls, nm, OK)
        ELSE LET item == ls[i]
             IN  IF item.owner # caller THEN Outcome(ls, nm, RevokeAuthError)
                 ELSE LET updated_item ==
                            [item EXCEPT !.buyers = Retain(@, buyer)]
                      IN  Outcome([ls EXCEPT ![i] = updated_item], nm, OK)

\* revoke_buyer_access that insists on the buyer having access
revoke_requires_access(ls, nm, caller, p_id, buyer) ==
    LET i == FindIndex(ls, p_id)
    IN  IF i = 0 THEN Outcome(ls, nm, OK)
        ELSE LET item == ls[i]
             IN  IF item.owner # caller THEN Outcome(ls, nm, RevokeAuthError)
                 ELSE IF ~Contains(item.buyers_with_access, buyer)
                 THEN Outcome(ls, nm, "Account does not have access")
                 ELSE LET updated_item ==
                            [item EXCEPT !.buyers_with_access = Retain(@, buyer)]
                      IN  Outcome([ls EXCEPT ![i] = updated_item], nm, OK)

\* revoke_buyer_access that empties buyers_with_access
revoke_clears_all(ls, nm, caller, p_id, buyer) ==
    LET i == FindIndex(ls, p_id)
    IN  IF i = 0 THEN Outcome(ls, nm, OK)
        ELSE LET item == ls[i]
             IN  IF item.owner # caller THEN Outcome(ls, nm, RevokeAuthError)
                 ELSE LET updated_item ==
                            [item EXCEPT !.buyers_with_access = << >>]
                      IN  Outcome([ls EXCEPT ![i] = updated_item], nm, OK)

revoke_buyer_access_fn(ls, nm, caller, p_id, buyer) ==
    LET i == FindIndex(ls, p_id)
    IN  IF i = 0 THEN Outcome(ls, nm, OK)
        ELSE LET item == ls[i]
             IN  IF item.owner # caller THEN Outcome(ls, nm, RevokeAuthError)
                 ELSE LET updated_item ==
                            [item EXCEPT !.buyers_with_access = Retain(@, buyer)]
                      IN  Outcome([ls EXCEPT ![i] = updated_item], nm, OK)

\* An overflowing addition panics in a build with overflow checks and wraps
\* silently in a build without them; the source does not fix the profile.
Built(r, overflow_checks) ==
    IF r.result = AddOverflow /\ ~overflow_checks
    THEN [r EXCEPT !.result = OK]
    ELSE r

\* The host commits the handler's writes when it returns and discards them
\* when it panics.
Commit(r) ==
    IF r.result = OK
    THEN /\ listings' = r.listings
         /\ nova_account_map' = r.nova_account_map
    ELSE /\ listings' = listings
         /\ nova_account_map' = nova_account_map

\* What the caller observes of the most recent call: how it ended (the panic
\* message names the operation that refused) and whether the handler had
\* written to the store when it panicked.
Call(r) ==
    [ result |-> r.result,
      dirty |-> (r.result # OK /\ (r.listings # listings
                                   \/ r.nova_account_map # nova_account_map)) ]

\* ---------------------------------------------------------------- actions
Init ==
    /\ listings = << >>
    /\ nova_account_map = [a \in Accounts |-> None]
    /\ call = [result |-> OK, dirty |-> FALSE]
    /\ hBuyCalls = << >>
    /\ hLast = [a \in Accounts |-> None]
    /\ hGrant = [pa \in ProductIds \X Buyers |-> None]
    /\ hFirst = << >>

\* A store the program reaches after 2^32 - 2 purchases of one listing: the
\* counter is one below the limit.  The histories are those of such a run.
InitAtLimit ==
    /\ listings = << [NewListing(1, "alice", CreateArgs("alice")) EXCEPT
                        !.purchase_number = LimitStart,
                        !.buyers = <<"bob", "carol">>] >>
    /\ nova_account_map = [a \in Accounts |->
                             IF a \in Buyers THEN "x.nova" ELSE None]
    /\ call = [result |-> OK, dirty |-> FALSE]
    /\ hBuyCalls = << [a \in Accounts |->
                         IF a = "bob" THEN <<Limb - 1, Limb - 3>>
                         ELSE IF a = "carol" THEN <<0, 1>> ELSE U32Zero] >>
    /\ hLast = [a \in Accounts |-> IF a \in Buyers THEN "x.nova" ELSE None]
    /\ hGrant = [pa \in ProductIds \X Buyers |-> None]
    /\ hFirst = << <<"bob", "carol">> >>

create_listing ==
    \E input \in ListingInputs :
        /\ Len(listings) < MaxListings
        /\ listings' = create_listing_fn(listings, input[1], input[2],
                                       CreateArgs(input[2]))
        /\ nova_account_map' = nova_account_map
        /\ call' = [result |-> OK, dirty |-> FALSE]
        /\ hBuyCalls' = Append(hBuyCalls, [a \in Accounts |-> U32Zero])
        /\ hFirst' = Append(hFirst, << >>)
        /\ UNCHANGED <<hLast, hGrant>>

\* The buy calls still allowed: MaxBuys from the empty store, and MaxBuys from
\* the store of InitAtLimit.
BuyAllowed(total) ==
    IF total[1] = 0 THEN total[2] < MaxBuys
    ELSE BigLess(total, BigAdd(LimitStart, Big(MaxBuys)))

buy ==
    \E input \in BuyInputs, p_id \in ProductIds :
        LET caller == input[1]
            nova_account_id == input[2]
            i == FindIndex(listings, p_id)
            handled == buy_fn(listings, nova_account_map, caller, p_id,
                              nova_account_id)
        IN  \E overflow_checks \in
                  (IF handled.result = AddOverflow THEN BOOLEAN ELSE {TRUE}) :
              LET r == Built(handled, overflow_checks)
              IN  /\ i # 0 => BuyAllowed(TotalCalls(hBuyCalls))
                  /\ Commit(r)
                  /\ call' = Call(r)
                  /\ hBuyCalls' = IF i = 0 \/ r.result # OK THEN hBuyCalls
                                  ELSE [hBuyCalls EXCEPT ![i][caller] = BigInc(@)]
                  /\ hLast' = [hLast EXCEPT ![caller] = nova_account_id]
                  /\ hFirst' = IF i = 0 \/ r.result # OK
                                  \/ hBuyCalls[i][caller] # U32Zero
                               THEN hFirst
                               ELSE [hFirst EXCEPT ![i] = Append(@, caller)]
                  /\ UNCHANGED hGrant

grant_buyer_access ==
    \E caller \in Accounts, p_id \in ProductIds, buyer \in Buyers :
        LET i == FindIndex(listings, p_id)
            r == grant_buyer_access_fn(listings, nova_account_map, caller, p_id, buyer)
        IN  /\ Commit(r)
            /\ call' = Call(r)
            /\ hGrant' = IF i # 0 /\ r.result = OK
                         THEN [hGrant EXCEPT ![<<p_id, buyer>>] =
                                 IF hBuyCalls[i][buyer] # U32Zero THEN caller
                                 ELSE "before purchase"]
                         ELSE hGrant
            /\ UNCHANGED <<hBuyCalls, hLast, hFirst>>

revoke_buyer_access ==
    \E caller \in Accounts, p_id \in ProductIds, buyer \in Buyers :
        LET i == FindIndex(listings, p_id)
            r == revoke_buyer_access_fn(listings, nova_account_map, caller, p_id, buyer)
        IN  /\ Commit(r)
            /\ call' = Call(r)
            /\ hGrant' = IF i # 0 /\ r.result = OK
                         THEN [hGrant EXCEPT ![<<p_id, buyer>>] = None]
                         ELSE hGrant
            /\ UNCHANGED <<hBuyCalls, hLast, hFirst>>

Next ==
    \/ create_listing
    \/ buy
    \/ grant_buyer_access
    \/ revoke_buyer_access

Spec == Init /\ [][Next]_vars

\* The same contract, started from the store at the counter's limit.
SpecAtLimit == InitAtLimit /\ [][Next]_vars

\* ---------------------------------------------------------------- claims
Resolves(p_id) == FindIndex(listings, p_id) # 0
IsShadowed(i) == FindIndex(listings, listings[i].product_id) # i
NoDuplicates(s) == \A j, k \in 1..Len(s) : s[j] = s[k] => j = k
Occurrences(s, a) == Cardinality({k \in 1..Len(s) : s[k] = a})
Aborted(result) == result \in {GrantAuthError, RevokeAuthError, PreconditionError}

\* C1: in every reachable state, for every listing of the store (a listing
\* shadowed by an earlier duplicate product_id included), every account in
\* buyers_with_access is also in buyers.
C1_AccessSubsetOfBuyers ==
    \A i \in 1..Len(listings) :
        Elems(listings[i].buyers_with_access) \subseteq Elems(listings[i].buyers)

\* A store holding a shadowed duplicate and a listing with a granted buyer.
C1_Witness ==
    /\ \E i \in 1..Len(listings) : IsShadowed(i)
    /\ \E i \in 1..Len(listings) : listings[i].buyers_with_access # << >>

\* C2: for every product_id p, get_pending_access_buyers(p) and
\* get_buyers_with_access(p) are disjoint and together hold exactly the buyers
\* of the listing get_listing(p) resolves to (both are empty when there is none).
C2_PendingAndAccessPartitionBuyers ==
    \A p \in ProductIds :
        LET pending == Elems(get_pending_access_buyers(p))
            granted == Elems(get_buyers_with_access(p))
        IN  /\ pending \cap granted = {}
            /\ pending \cup granted =
                  (IF Resolves(p) THEN Elems(get_listing(p)[1].buyers) ELSE {})

\* A listing with one buyer pending and another granted.
C2_Witness ==
    \E p \in ProductIds :
        /\ get_pending_access_buyers(p) # << >>
        /\ get_buyers_with_access(p) # << >>

\* C3: whenever product_id resolves to a listing and the caller is not its
\* owner, grant_buyer_access and revoke_buyer_access both abort with the
\* authorization error, whatever the buyer's state (purchased or not, with
\* access or not): for grant it takes precedence over the not-purchased error.
C3_NonOwnerGetsAuthorizationError ==
    \A caller \in Accounts, p \in ProductIds, buyer \in Accounts :
        (Resolves(p) /\ get_listing(p)[1].owner # caller) =>
            /\ grant_buyer_access_fn(listings, nova_account_map,
                                     caller, p, buyer).result = GrantAuthError
            /\ revoke_buyer_access_fn(listings, nova_account_map,
                                      caller, p, buyer).result = RevokeAuthError

\* A grant has just been refused for the caller not being the owner, in a store
\* where some account never purchased, one purchased and one has access.
C3_Witness ==
    /\ call.result = GrantAuthError
    /\ \E p \in ProductIds :
          /\ get_pending_access_buyers(p) # << >>
          /\ get_buyers_with_access(p) # << >>
          /\ \E a \in Accounts : ~has_purchased(p, a)

\* C4: when the owner of the listing p resolves to calls grant_buyer_access(p,
\* buyer) for a buyer that is not in the listing's buyers, the call aborts with
\* the precondition error and the buyer does not gain access.
C4_GrantNeedsPurchase ==
    \A p \in ProductIds, buyer \in Accounts :
        (Resolves(p) /\ ~has_purchased(p, buyer)) =>
            LET r == grant_buyer_access_fn(listings, nova_account_map,
                                           get_listing(p)[1].owner, p, buyer)
            IN  /\ r.result = PreconditionError
                /\ ~Contains(r.listings[FindIndex(listings, p)].buyers_with_access,
                             buyer)
                /\ ~has_access(p, buyer)

\* The owner's grant for an account that had not purchased has just been refused.
C4_Witness ==
    /\ call.result = PreconditionError
    /\ \E p \in ProductIds : Resolves(p) /\ get_listing(p)[1].buyers # << >>

\* C5: a call that aborts (authorization error on grant or revoke, precondition
\* error on grant) leaves listings and nova_account_map exactly as they were,
\* and the handler has written nothing to the store when it aborts.
C5_AbortChangesNothing ==
    [][Aborted(call'.result) =>
          /\ listings' = listings
          /\ nova_account_map' = nova_account_map
          /\ ~call'.dirty]_vars

\* A revoke has just been refused in a store that holds purchases and grants.
C5_Witness ==
    /\ call.result = RevokeAuthError
    /\ \E i \in 1..Len(listings) : listings[i].buyers_with_access # << >>
    /\ \E a \in Accounts : nova_account_map[a] # None

\* C6: has_access(p, a) holds only if a itself called buy(p, ..) on the resolved
\* listing and afterwards its owner granted a access, with no successful revoke
\* of a since; and buy changes no listing's buyers_with_access.
C6_AccessOnlyByOwnerGrantAfterPurchase ==
    /\ \A p \in ProductIds, a \in Accounts :
          has_access(p, a) =>
              /\ a \in Buyers
              /\ hBuyCalls[FindIndex(listings, p)][a] # U32Zero
              /\ hGrant[<<p, a>>] = get_listing(p)[1].owner
    /\ \A caller \in Accounts, p \in ProductIds, x \in NovaIds :
          LET r == buy_fn(listings, nova_account_map, caller, p, x)
          IN  \A i \in 1..Len(listings) :
                r.listings[i].buyers_with_access = listings[i].buyers_with_access

\* One buyer has purchased and been granted access while another has purchased
\* and has none.
C6_Witness ==
    \E p \in ProductIds, a, b \in Accounts :
        /\ has_access(p, a)
        /\ has_purchased(p, b) /\ ~has_access(p, b)

\* C7: for the listing a product_id resolves to, purchase_number is the number
\* of buy calls made on it since it was created, repeat purchases counted,
\* while every caller of buy is in buyers exactly once.
C7_CounterCountsCalls ==
    \A i \in 1..Len(listings) :
        ~IsShadowed(i) =>
            /\ listings[i].purchase_number = SumOver(hBuyCalls[i], Accounts)
            /\ \A a \in Accounts :
                  Occurrences(listings[i].buyers, a) =
                      (IF hBuyCalls[i][a] # U32Zero THEN 1 ELSE 0)

\* One caller has bought the same listing more than once.
C7_Witness ==
    \E i \in 1..Len(listings), a \in Accounts :
        /\ hBuyCalls[i][a] = Big(2)
        /\ listings[i].purchase_number = Big(2)

\* C8: in every listing, buyers holds no account twice and buyers_with_access
\* holds no account twice.
C8_NoDuplicateBuyers ==
    \A i \in 1..Len(listings) :
        /\ NoDuplicates(listings[i].buyers)
        /\ NoDuplicates(listings[i].buyers_with_access)

\* A repeat purchaser with access, next to a listing holding two buyers.
C8_Witness ==
    \E i \in 1..Len(listings) :
        /\ BigLess(Big(Len(listings[i].buyers)), listings[i].purchase_number)
        /\ listings[i].buyers_with_access # << >>

\* C9: get_nova_account(c) is the NOVA account c passed to its most recent buy
\* call, whether or not that call's product_id resolved, and is absent exactly
\* for the accounts that never called buy; no other call changes the map.
C9_NovaAccountIsLastWritten ==
    /\ \A a \in Accounts : get_nova_account(a) = hLast[a]
    /\ \A c \in Accounts, p \in ProductIds, x \in NovaIds :
          buy_fn(listings, nova_account_map, c, p, x).nova_account_map
              = [nova_account_map EXCEPT ![c] = x]

\* A buy on a product_id of an empty store has written the caller's entry, and
\* another account has none.
C9_Witness ==
    /\ listings = << >>
    /\ get_nova_account("bob") = "y.nova"
    /\ get_nova_account("carol") = None

\* C10: when product_id matches no listing, buy, grant_buyer_access and
\* revoke_buyer_access complete without error for any caller and buyer and
\* leave the listings unchanged (buy still writes the caller's map entry), and
\* the queries on that product_id return absent, false or empty.
C10_UnknownProductIsSilent ==
    \A p \in ProductIds :
        (\A i \in 1..Len(listings) : listings[i].product_id # p) =>
            /\ \A c \in Accounts, x \in NovaIds :
                  buy_fn(listings, nova_account_map, c, p, x) =
                      Outcome(listings, [nova_account_map EXCEPT ![c] = x], OK)
            /\ \A c \in Accounts, b \in Accounts :
                  /\ grant_buyer_access_fn(listings, nova_account_map, c, p, b)
                        = Outcome(listings, nova_account_map, OK)
                  /\ revoke_buyer_access_fn(listings, nova_account_map, c, p, b)
                        = Outcome(listings, nova_account_map, OK)
                  /\ ~has_access(p, b)
                  /\ ~has_purchased(p, b)
            /\ get_listing(p) = << >>
            /\ get_pending_access_buyers(p) = << >>
            /\ get_buyers_with_access(p) = << >>
            /\ get_pending_buyers_with_nova_accounts(p) = << >>

\* A buy on a product_id without listing has written the map while the one
\* listing of the store stayed as created.
C10_Witness ==
    /\ Len(listings) = 1
    /\ \E p \in ProductIds : ~Resolves(p)
    /\ listings[1].purchase_number = U32Zero
    /\ get_nova_account("carol") # None

\* C11 as stated: from every reachable store, creating a listing and then
\* calling get_listing on its product_id returns a record equal to the inputs,
\* with purchase_number 0, is_active true and both buyer lists empty.
InputRecord(product_id, gp_owner, args) ==
    [ product_id |-> product_id, price |-> args[1], nova_group_id |-> args[2],
      owner |-> gp_owner, list_type |-> args[3], cid |-> args[4],
      is_tee_verified |-> args[5], tee_signature |-> args[6],
      purchase_number |-> U32Zero, is_active |-> TRUE,
      buyers |-> << >>, buyers_with_access |-> << >> ]

C11_CreateThenGetReturnsInput ==
    \A p \in ProductIds, o \in Owners :
        Lookup(create_listing_fn(listings, p, o, CreateArgs(o)), p)
            = <<InputRecord(p, o, CreateArgs(o))>>

\* C11, amended: the same, for a product_id that no listing of the store has
\* when the listing is created.
C11_CreateThenGetReturnsInputWhenNew ==
    \A p \in ProductIds, o \in Owners :
        ~Resolves(p) =>
            Lookup(create_listing_fn(listings, p, o, CreateArgs(o)), p)
                = <<InputRecord(p, o, CreateArgs(o))>>

\* A listing of a new product_id has been created in a store whose other
\* listing has purchases, and get_listing returns it as it was put in.
C11_Witness ==
    /\ Len(listings) = 2
    /\ listings[1].product_id = 1
    /\ listings[1].purchase_number # U32Zero
    /\ listings[2] = InputRecord(2, "alice", CreateArgs("alice"))
    /\ get_listing(2) = <<listings[2]>>

\* The position of the earliest-created listing with product_id p, and the
\* positions of the listings created later with the product_id of an earlier one.
Earliest(p) ==
    CHOOSE e \in 1..Len(listings) :
        /\ listings[e].product_id = p
        /\ \A j \in 1..(e - 1) : listings[j].product_id # p

LaterDuplicates ==
    { i \in 1..Len(listings) :
        \E j \in 1..(i - 1) : listings[j].product_id = listings[i].product_id }

\* The store ls differs from listings in the listing at position e at most.
ChangedAtMost(ls, e) ==
    \/ ls = listings
    \/ /\ Len(ls) = Len(listings)
       /\ \A k \in 1..Len(listings) : k # e => ls[k] = listings[k]

\* With i a later duplicate of product_id p: get_listing(p) is the earliest
\* listing of p, the three handlers decide on the earliest listing's owner and
\* change no listing but the earliest, and listing i is as it was created.
OnlyEarliestUsed(i) ==
    LET p == listings[i].product_id
        e == Earliest(p)
    IN  /\ get_listing(p) = <<listings[e]>>
        /\ listings[i].purchase_number = U32Zero
        /\ listings[i].buyers = << >>
        /\ listings[i].buyers_with_access = << >>
        /\ \A c \in Accounts, x \in NovaIds :
              LET bought == buy_fn(listings, nova_account_map, c, p, x).listings
              IN  /\ ChangedAtMost(bought, e)
                  /\ bought[e] # listings[e]
        /\ \A c \in Accounts, b \in Accounts :
              LET granted == grant_buyer_access_fn(listings, nova_account_map, c, p, b)
                  revoked == revoke_buyer_access_fn(listings, nova_account_map, c, p, b)
              IN  /\ (granted.result = GrantAuthError) <=> (c # listings[e].owner)
                  /\ (revoked.result = RevokeAuthError) <=> (c # listings[e].owner)
                  /\ ChangedAtMost(granted.listings, e)
                  /\ ChangedAtMost(revoked.listings, e)

\* The owner of listing i is refused by grant and by revoke on its product_id.
OwnerRefused(i) ==
    \A b \in Accounts :
        /\ grant_buyer_access_fn(listings, nova_account_map, listings[i].owner,
                                 listings[i].product_id, b).result = GrantAuthError
        /\ revoke_buyer_access_fn(listings, nova_account_map, listings[i].owner,
                                  listings[i].product_id, b).result = RevokeAuthError

\* C12 as stated: with several listings of one product_id only the earliest
\* is returned, read and changed, every later duplicate keeps purchase_number
\* 0 and empty buyer lists, and the owner of a later duplicate is never the
\* account authorized for the product_id.
C12_DuplicateOwnerNeverAuthorized ==
    \A i \in LaterDuplicates : OnlyEarliestUsed(i) /\ OwnerRefused(i)

\* C12, amended: the same, but the owner of a later duplicate is refused
\* exactly when it is not also the owner of the earliest listing.
C12_OnlyEarliestDuplicateUsed ==
    \A i \in LaterDuplicates :
        /\ OnlyEarliestUsed(i)
        /\ OwnerRefused(i) <=>
              (listings[i].owner # listings[Earliest(listings[i].product_id)].owner)

\* Two owners have listed the same product_id; purchases and a grant went to
\* the earlier listing and the later one is as it was created.
C12_Witness ==
    /\ Len(listings) = 2
    /\ listings[1].product_id = 1 /\ listings[1].owner = "alice"
    /\ listings[2] = InputRecord(1, "bob", CreateArgs("bob"))
    /\ listings[1].purchase_number = Big(2)
    /\ listings[1].buyers_with_access = <<"bob">>
    /\ hGrant[<<1, "bob">>] = "alice"

\* C13: when a grant_buyer_access or revoke_buyer_access call succeeds, the
\* same call repeated at once succeeds again and leaves the state as the first
\* call left it; a grant of a buyer that has access and a revoke of a buyer
\* without access (purchased or not) by the owner succeed and change nothing.
C13_GrantAndRevokeIdempotent ==
    \A c \in Accounts, p \in ProductIds, b \in Accounts :
        LET granted == grant_buyer_access_fn(listings, nova_account_map, c, p, b)
            revoked == revoke_buyer_access_fn(listings, nova_account_map, c, p, b)
            unchanged == Outcome(listings, nova_account_map, OK)
            owned == Resolves(p) /\ get_listing(p)[1].owner = c
        IN  /\ granted.result = OK =>
                  grant_buyer_access_fn(granted.listings, granted.nova_account_map,
                                        c, p, b) = granted
            /\ revoked.result = OK =>
                  revoke_buyer_access_fn(revoked.listings, revoked.nova_account_map,
                                         c, p, b) = revoked
            /\ owned /\ has_access(p, b) => granted = unchanged
            /\ owned /\ ~has_access(p, b) => revoked = unchanged

\* The owner has granted a buyer access and another account never purchased:
\* here the owner's second grant of the first and its revoke of the second
\* succeed and change nothing, and its revoke of the first, done twice, leaves
\* what one revoke leaves.
C13_Witness ==
    /\ Len(listings) = 1 /\ listings[1].owner = "alice"
    /\ hGrant[<<1, "bob">>] = "alice" /\ has_access(1, "bob")
    /\ ~has_purchased(1, "carol")
    /\ grant_buyer_access_fn(listings, nova_account_map, "alice", 1, "bob")
          = Outcome(listings, nova_account_map, OK)
    /\ revoke_buyer_access_fn(listings, nova_account_map, "alice", 1, "carol")
          = Outcome(listings, nova_account_map, OK)
    /\ LET once == revoke_buyer_access_fn(listings, nova_account_map, "alice", 1, "bob")
       IN  /\ once.listings # listings
           /\ revoke_buyer_access_fn(once.listings, once.nova_account_map,
                                     "alice", 1, "bob") = once

\* get_pending_access_buyers on a given store.
PendingIn(ls, p_id) ==
    LET found == Lookup(ls, p_id)
    IN  IF found # << >>
        THEN SelectSeq(found[1].buyers,
                       LAMBDA buyer : ~Contains(found[1].buyers_with_access, buyer))
        ELSE << >>

\* C14: a successful revoke_buyer_access(p, b) on a resolved listing leaves b
\* without access and changes nothing else: every other field of the listing
\* (buyers and purchase_number among them), the access of every other
\* account, every other listing and the map are as before; b is still a
\* purchaser and is listed as pending again.
C14_RevokeOnlyRemovesAccess ==
    /\ \A c \in Accounts, p \in ProductIds, b \in Accounts :
          LET i == FindIndex(listings, p)
              r == revoke_buyer_access_fn(listings, nova_account_map, c, p, b)
          IN  (i # 0 /\ r.result = OK) =>
                  /\ ~Contains(r.listings[i].buyers_with_access, b)
                  /\ r.listings[i] =
                         [listings[i] EXCEPT !.buyers_with_access =
                                                r.listings[i].buyers_with_access]
                  /\ \A a \in Accounts \ {b} :
                         Contains(r.listings[i].buyers_with_access, a)
                             <=> Contains(listings[i].buyers_with_access, a)
                  /\ Len(r.listings) = Len(listings)
                  /\ \A k \in 1..Len(listings) :
                         k # i => r.listings[k] = listings[k]
                  /\ r.nova_account_map = nova_account_map
                  /\ Contains(listings[i].buyers, b) =>
                         /\ Contains(r.listings[i].buyers, b)
                         /\ Contains(PendingIn(r.listings, p), b)
    /\ \A p \in ProductIds, b \in Buyers :
          (has_purchased(p, b) /\ hGrant[<<p, b>>] = None) =>
              Contains(get_pending_access_buyers(p), b)

\* Two buyers have access by the owner's grants: the owner's revoke of the
\* first removes it alone from buyers_with_access, leaves both in buyers and
\* lists the first as pending.
C14_Witness ==
    /\ Len(listings) = 1 /\ listings[1].owner = "alice"
    /\ listings[1].buyers = <<"bob", "carol">>
    /\ get_buyers_with_access(1) = <<"bob", "carol">>
    /\ LET r == revoke_buyer_access_fn(listings, nova_account_map, "alice", 1, "bob")
       IN  /\ r.result = OK
           /\ r.listings[1].buyers_with_access = <<"carol">>
           /\ r.listings[1].buyers = <<"bob", "carol">>
           /\ PendingIn(r.listings, 1) = <<"bob">>

\* The fields a listing is created with, and is_active.
Static(l) ==
    [ product_id |-> l.product_id, price |-> l.price,
      nova_group_id |-> l.nova_group_id, owner |-> l.owner,
      list_type |-> l.list_type, cid |-> l.cid,
      is_tee_verified |-> l.is_tee_verified, tee_signature |-> l.tee_signature,
      is_active |-> l.is_active ]

\* The store ls has the listings of listings, each with its creation fields.
SameStatic(ls) ==
    \/ ls = listings
    \/ /\ Len(ls) = Len(listings)
       /\ \A k \in 1..Len(listings) :
             ls[k] = listings[k] \/ Static(ls[k]) = Static(listings[k])

\* C15: the listings are append-only and the creation fields never change:
\* create_listing adds one record after the existing ones and alters none of
\* them; buy, grant_buyer_access and revoke_buyer_access remove, add and
\* reorder nothing and leave product_id, price, nova_group_id, owner,
\* list_type, cid, is_tee_verified and tee_signature of every listing as they
\* were; every listing still has the fields it was created with, and
\* is_active is true.
C15_StoreAppendOnly ==
    /\ \A i \in 1..Len(listings) :
          /\ listings[i].is_active
          /\ Static(listings[i]) =
                Static(InputRecord(listings[i].product_id, listings[i].owner,
                                   CreateArgs(listings[i].owner)))
    /\ \A p \in ProductIds, o \in Owners :
          LET created == create_listing_fn(listings, p, o, CreateArgs(o))
          IN  /\ Len(created) = Len(listings) + 1
              /\ \A k \in 1..Len(listings) : created[k] = listings[k]
    /\ \A c \in Accounts, p \in ProductIds :
          /\ \A x \in NovaIds :
                SameStatic(buy_fn(listings, nova_account_map, c, p, x).listings)
          /\ \A b \in Accounts :
                /\ SameStatic(grant_buyer_access_fn(listings, nova_account_map,
                                                    c, p, b).listings)
                /\ SameStatic(revoke_buyer_access_fn(listings, nova_account_map,
                                                     c, p, b).listings)

\* Two listings of different products, the later-created one with purchases
\* and a grant, the earlier one with a purchase, each where it was created.
C15_Witness ==
    /\ Len(listings) = 2
    /\ listings[1].product_id = 2 /\ listings[2].product_id = 1
    /\ listings[1].purchase_number # U32Zero
    /\ listings[2].buyers_with_access # << >>

\* C16: get_pending_access_buyers(p) lists the buyers without access in the
\* order of their first buy call on p, however grants and revokes were
\* interleaved: a buyer whose access was granted and revoked is back at the
\* place of its first purchase.
C16_PendingInFirstPurchaseOrder ==
    \A p \in ProductIds :
        Resolves(p) =>
            get_pending_access_buyers(p) =
                SelectSeq(hFirst[FindIndex(listings, p)],
                          LAMBDA a : ~has_access(p, a))

\* The buyer that bought first has access by the owner's grant and the buyer
\* that bought second is pending: the owner's revoke of the first lists it as
\* pending before the second.
C16_Witness ==
    /\ Resolves(1)
    /\ hFirst[FindIndex(listings, 1)] = <<"bob", "carol">>
    /\ hGrant[<<1, "bob">>] = get_listing(1)[1].owner
    /\ get_pending_access_buyers(1) = <<"carol">>
    /\ PendingIn(revoke_buyer_access_fn(listings, nova_account_map,
                                        get_listing(1)[1].owner, 1, "bob").listings, 1)
          = <<"bob", "carol">>

\* C17 as stated: buy never aborts; in every reachable state the call
\* completes for every caller, product_id and NOVA account, in either build,
\* and the purchase_number of the listing product_id resolves to is afterwards
\* one greater than before, also at the largest u32.
C17_BuyCompletesAndCountsOne ==
    /\ call.result # AddOverflow
    /\ \A c \in Accounts, p \in ProductIds, x \in NovaIds, overflow_checks \in BOOLEAN :
          LET i == FindIndex(listings, p)
              r == Built(buy_fn(listings, nova_account_map, c, p, x), overflow_checks)
          IN  /\ r.result = OK
              /\ i # 0 => r.listings[i].purchase_number
                              = BigInc(listings[i].purchase_number)

\* C18: every account in a listing's buyers has a nova_account_map entry, so
\* get_pending_buyers_with_nova_accounts(p) drops no buyer: it holds one pair
\* for each element of get_pending_access_buyers(p), in the same order, with
\* the NOVA account the map now holds for that buyer.
C18_PendingPairsDropNoBuyer ==
    /\ \A i \in 1..Len(listings) :
          \A a \in Elems(listings[i].buyers) : get_nova_account(a) # None
    /\ \A p \in ProductIds :
          LET pending == get_pending_access_buyers(p)
              pairs == get_pending_buyers_with_nova_accounts(p)
          IN  /\ Len(pairs) = Len(pending)
              /\ \A k \in 1..Len(pending) :
                    /\ pairs[k][1] = pending[k]
                    /\ pairs[k][2] = get_nova_account(pending[k])
                    /\ pairs[k][2] \in NovaIds

\* Two buyers are pending and the result pairs each, in the order of buyers,
\* with the NOVA account it passed to buy.
C18_Witness ==
    /\ Len(listings) = 1
    /\ ~Resolves(2)
    /\ listings[1].purchase_number = Big(2)
    /\ get_pending_buyers_with_nova_accounts(1)
          = << <<"bob", "y.nova">>, <<"carol", "x.nova">> >>
    /\ call = [result |-> OK, dirty |-> FALSE]

\* The buyers and the purchase_number of every listing of a store.
Purchases(ls) ==
    [k \in 1..Len(ls) |-> <<ls[k].buyers, ls[k].purchase_number>>]

\* C19: no account is made a buyer by another: an account is in a listing's
\* buyers only if it was itself the caller of a buy on that listing, and it
\* has a nova_account_map entry only if it called buy; a buy adds no account
\* but its caller to buyers and writes no entry but its caller's; and
\* create_listing, grant_buyer_access and revoke_buyer_access change neither
\* buyers, purchase_number nor the map.
C19_OnlyTheCallerBuys ==
    /\ \A i \in 1..Len(listings) :
          \A a \in Elems(listings[i].buyers) : hBuyCalls[i][a] # U32Zero
    /\ \A a \in Accounts : get_nova_account(a) # None => hLast[a] # None
    /\ \A c \in Accounts, p \in ProductIds, x \in NovaIds :
          LET r == buy_fn(listings, nova_account_map, c, p, x)
          IN  /\ \A a \in Accounts \ {c} :
                    r.nova_account_map[a] = nova_account_map[a]
              /\ \A k \in 1..Len(listings) :
                    Elems(r.listings[k].buyers)
                        \subseteq Elems(listings[k].buyers) \cup {c}
    /\ \A c \in Accounts, p \in ProductIds, b \in Accounts :
          \A r \in { grant_buyer_access_fn(listings, nova_account_map, c, p, b),
                     revoke_buyer_access_fn(listings, nova_account_map, c, p, b) } :
              /\ r.listings = listings \/ Purchases(r.listings) = Purchases(listings)
              /\ r.nova_account_map = nova_account_map
    /\ \A p \in ProductIds, o \in Owners :
          LET created == create_listing_fn(listings, p, o, CreateArgs(o))
          IN  SubSeq(Purchases(created), 1, Len(listings)) = Purchases(listings)

\* The owner's grant for an account that never called buy was refused: the
\* account is no buyer and has no map entry, and the one buyer is the caller
\* of the one buy.
C19_Witness ==
    /\ call.result = PreconditionError
    /\ Len(listings) = 1
    /\ listings[1].buyers = <<"carol">>
    /\ hBuyCalls[1]["carol"] = Big(1) /\ hBuyCalls[1]["bob"] = U32Zero
    /\ get_nova_account("bob") = None

\* Every listing's buyers in the store ls begins with its buyers in listings.
BuyersExtended(ls) ==
    \/ ls = listings
    \/ \A k \in 1..Len(listings) :
          \/ ls[k].buyers = listings[k].buyers
          \/ /\ Len(ls[k].buyers) >= Len(listings[k].buyers)
             /\ SubSeq(ls[k].buyers, 1, Len(listings[k].buyers))
                   = listings[k].buyers

\* C20 as stated: a purchase is permanent: an account that has bought a
\* listing is in its buyers in every later state; buyers grows only by
\* appending at the end (it is the callers in the order of their first buy,
\* and every handler's result keeps it as a prefix); and purchase_number is
\* at least the number of buyers and is 0 exactly when buyers is empty.
C20_PurchasesPermanent ==
    /\ \A i \in 1..Len(listings) :
          /\ \A a \in Accounts :
                hBuyCalls[i][a] # U32Zero => Contains(listings[i].buyers, a)
          /\ listings[i].buyers = hFirst[i]
          /\ ~BigLess(listings[i].purchase_number, Big(Len(listings[i].buyers)))
          /\ (listings[i].purchase_number = U32Zero) <=> (listings[i].buyers = << >>)
    /\ \A p \in ProductIds, a \in Accounts :
          (Resolves(p) /\ hBuyCalls[FindIndex(listings, p)][a] # U32Zero)
              => has_purchased(p, a)
    /\ \A c \in Accounts, p \in ProductIds :
          /\ \A x \in NovaIds :
                BuyersExtended(buy_fn(listings, nova_account_map, c, p, x).listings)
          /\ \A b \in Accounts :
                /\ BuyersExtended(grant_buyer_access_fn(listings, nova_account_map,
                                                        c, p, b).listings)
                /\ BuyersExtended(revoke_buyer_access_fn(listings, nova_account_map,
                                                         c, p, b).listings)

====
